---- MODULE Spec2Model ----
(***************************************************************************)
(* Model of the song arranger's quantization pipeline                      *)
(* (services/audio-service/app/services/song_arranger_service.py).         *)
(*                                                                         *)
(* Times (offsets and durations) are integers counting thousandths of a    *)
(* quarter length: 1.0 quarter = 1000, the 32nd note 0.125 = 125, the      *)
(* tolerance 0.001 = 1 and the de-duplication epsilon 0.01 = 10.           *)
(* Pitches are MIDI integers.  A CleanNote is a record                     *)
(*   [offset, duration, midi_pitch, is_rest].                              *)
(***************************************************************************)
EXTENDS Integers, Sequences, FiniteSets, TLC

VARIABLES raw_events, transposition, pc, clean_notes, timeline, cap_hit, tier_status,
          meta_tempo, tier_score, args, ret

vars == <<raw_events, transposition, pc, clean_notes, timeline, cap_hit, tier_status,
          meta_tempo, tier_score, args, ret>>

-----------------------------------------------------------------------------
(* Configuration *)

Tiers == <<"beginner", "intermediate", "advanced">>

TierSet == {"beginner", "intermediate", "advanced"}

RANGES ==
  [ beginner     |-> [low |-> 60, high |-> 74],
    intermediate |-> [low |-> 57, high |-> 79],
    advanced     |-> [low |-> 54, high |-> 84] ]

GRID == [ beginner |-> 500, intermediate |-> 250, advanced |-> 125 ]

\* Tempo multipliers 0.70, 0.85, 1.0, in hundredths
TEMPO_MULT == [ beginner |-> 70, intermediate |-> 85, advanced |-> 100 ]

\* SongMetadata.tempo when the score holds no metronome mark
DEFAULT_TEMPO == 120

STANDARD_DURATIONS == {4000, 3000, 2000, 1500, 1000, 750, 500, 250, 125}

FILL_DURATIONS == <<4000, 2000, 1000, 500, 250, 125>>

\* midi_pitch of a rest (Python None); no pitch of a note is negative after
\* _constrain_pitch, so the value cannot collide with a note's pitch.
None == -1

TARGET_CENTER == 67

REF_LOW == 57

REF_HIGH == 79

INITIAL_BEST_SCORE == -1000

MAX_ITERATIONS == 50

-----------------------------------------------------------------------------
(* Arithmetic helpers *)

Abs(x) == IF x < 0 THEN -x ELSE x

Max(a, b) == IF a >= b THEN a ELSE b

Min(a, b) == IF a <= b THEN a ELSE b

\* Python round(n / d) for d > 0: nearest integer, halves to the even one.
PyRound(n, d) ==
  LET q == n \div d
      r == n - q * d
  IN  IF 2 * r < d THEN q
      ELSE IF 2 * r > d THEN q + 1
      ELSE IF q % 2 = 0 THEN q ELSE q + 1

\* round(x * 1000) / 1000 on a time x held in thousandths.
Round3(x) == PyRound(x * 1000, 1000)

RECURSIVE SumPitches(_)
SumPitches(events) ==
  IF events = <<>> THEN 0 ELSE Head(events).pitch + SumPitches(Tail(events))

MinPitch(events) ==
  CHOOSE p \in {events[i].pitch : i \in 1..Len(events)} :
    \A i \in 1..Len(events) : p <= events[i].pitch

MaxPitch(events) ==
  CHOOSE p \in {events[i].pitch : i \in 1..Len(events)} :
    \A i \in 1..Len(events) : p >= events[i].pitch

-----------------------------------------------------------------------------
(* Event Extraction *)

\* An element of score.flatten().notesAndRests is a record
\* [kind, offset, dur, pitches]: kind is "rest", "note" or "chord", pitches the
\* set of MIDI pitches sounding (one for a note, none for a rest).
HighestPitch(pitches) == CHOOSE p \in pitches : \A q \in pitches : q <= p

\* Faulty variant of SortKeyLeq: the pitch is not negated in the key.
SortKeyLeqLowestFirst(a, b) ==
  a.offset < b.offset \/ (a.offset = b.offset /\ a.pitch <= b.pitch)

\* (a[0], -a[2]) <= (b[0], -b[2]) in the order of Python tuples
SortKeyLeq(a, b) ==
  a.offset < b.offset \/ (a.offset = b.offset /\ 0 - a.pitch <= 0 - b.pitch)

\* list.sort is stable: e goes after every element whose key is <= its own.
RECURSIVE InsertByKey(_, _)
InsertByKey(sorted, e) ==
  IF sorted = <<>> THEN <<e>>
  ELSE IF SortKeyLeq(Head(sorted), e)
       THEN <<Head(sorted)>> \o InsertByKey(Tail(sorted), e)
       ELSE <<e>> \o sorted

RECURSIVE SortByKey(_)
SortByKey(s) ==
  IF s = <<>> THEN <<>>
  ELSE InsertByKey(SortByKey(SubSeq(s, 1, Len(s) - 1)), s[Len(s)])

\* The first for-loop of _extract_raw_events from element i on.
RECURSIVE ExtractLoop(_, _, _)
ExtractLoop(score, i, events) ==
  IF i > Len(score) THEN events
  ELSE LET el  == score[i]
           dur == IF el.dur <= 0 THEN 250 ELSE el.dur
       IN  IF el.kind = "rest" THEN ExtractLoop(score, i + 1, events)
           ELSE IF el.kind = "note"
           THEN ExtractLoop(score, i + 1,
                  Append(events, [offset |-> el.offset, dur |-> dur,
                                  pitch |-> CHOOSE p \in el.pitches : TRUE]))
           ELSE IF el.kind = "chord"
           THEN ExtractLoop(score, i + 1,
                  Append(events, [offset |-> el.offset, dur |-> dur,
                                  pitch |-> HighestPitch(el.pitches)]))
           ELSE ExtractLoop(score, i + 1, events)

\* Offsets are doubles.  The double nearest to n/1000 is m / 2^k with m a
\* 53-bit integer; DoubleScale is k, and DoubleError is n * 2^k - 1000 * m, the
\* rounding error in units of 1 / (1000 * 2^k).
RECURSIVE Pow2(_)
Pow2(k) == IF k = 0 THEN 1 ELSE 2 * Pow2(k - 1)

RECURSIVE Pow2Mod1000(_)
Pow2Mod1000(k) == IF k = 0 THEN 1 ELSE (2 * Pow2Mod1000(k - 1)) % 1000

\* e with 2^e <= n/1000 < 2^(e+1), for n > 0; called with e = 0
RECURSIVE BinaryExponent(_, _)
BinaryExponent(n, e) ==
  IF e >= 0 /\ Pow2(e + 1) * 1000 <= n THEN BinaryExponent(n, e + 1)
  ELSE IF e <= 0 /\ n * Pow2(0 - e) < 1000 THEN BinaryExponent(n, e - 1)
  ELSE e

DoubleScale(n) == 52 - BinaryExponent(n, 0)

DoubleError(n) ==
  LET r == ((n % 1000) * Pow2Mod1000(DoubleScale(n))) % 1000
  IN  IF 2 * r <= 1000 THEN r ELSE r - 1000

\* double(b/1000) - double(a/1000) > double(0.01) for b = a + 10, a >= 0: the
\* subtraction is exact, so the rounding errors of a, b and 0.01 decide.
GapOfEpsilonExceeds(a) ==
  IF a = 0 THEN FALSE
  ELSE LET b   == a + 10
           ka  == DoubleScale(a)
           kb  == DoubleScale(b)
           k0  == DoubleScale(10)
           lhs == DoubleError(a) - DoubleError(b) * Pow2(ka - kb)
           rhs == 0 - DoubleError(10)
       IN  IF k0 >= ka THEN lhs * Pow2(k0 - ka) > rhs
           ELSE lhs > rhs * Pow2(ka - k0)

\* abs(offset - last_offset) > 0.01 on doubles; the offsets are thousandths,
\* not negative but for the -1.0 the loop starts with
ExceedsEpsilon(offset, last_offset) ==
  LET d == Abs(offset - last_offset)
  IN  IF d = 10 /\ offset >= 0 /\ last_offset >= 0
      THEN GapOfEpsilonExceeds(IF offset < last_offset THEN offset ELSE last_offset)
      ELSE d > 10

\* The second for-loop: an event is kept when its offset is more than 0.01 away
\* from the offset kept last (-1.0 at the start).
RECURSIVE ExtractUniqueLoop(_, _, _, _)
ExtractUniqueLoop(events, i, unique, last_offset) ==
  IF i > Len(events) THEN unique
  ELSE IF ExceedsEpsilon(events[i].offset, last_offset)
       THEN ExtractUniqueLoop(events, i + 1, Append(unique, events[i]), events[i].offset)
       ELSE ExtractUniqueLoop(events, i + 1, unique, last_offset)

ExtractRawEvents(score) ==
  ExtractUniqueLoop(SortByKey(ExtractLoop(score, 1, <<>>)), 1, <<>>, 0 - 1000)

-----------------------------------------------------------------------------
(* Transposition *)

OCTAVES == <<-24, -12, 0, 12, 24>>

\* Fit score of one candidate shift against the reference range 57..79.
ShiftScore(low, high, shift) ==
  LET new_low  == low + shift
      new_high == high + shift
  IN  (IF new_low >= REF_LOW THEN 20 ELSE 0 - (REF_LOW - new_low) * 3)
    + (IF new_high <= REF_HIGH THEN 20 ELSE 0 - (new_high - REF_HIGH) * 3)

\* Faulty variant of OctaveLoop: a candidate that only equals the best score
\* replaces the current best, so the last of several best candidates wins.
RECURSIVE OctaveLoopKeepLast(_, _, _, _, _, _)
OctaveLoopKeepLast(i, base_shift, low, high, best_shift, best_score) ==
  IF i > Len(OCTAVES) THEN best_shift
  ELSE LET shift == base_shift + OCTAVES[i]
           score == ShiftScore(low, high, shift)
       IN  IF score >= best_score
           THEN OctaveLoopKeepLast(i + 1, base_shift, low, high, shift, score)
           ELSE OctaveLoopKeepLast(i + 1, base_shift, low, high, best_shift, best_score)

\* The for-loop over the octave adjustments, from candidate i on.
RECURSIVE OctaveLoop(_, _, _, _, _, _)
OctaveLoop(i, base_shift, low, high, best_shift, best_score) ==
  IF i > Len(OCTAVES) THEN best_shift
  ELSE LET shift == base_shift + OCTAVES[i]
           score == ShiftScore(low, high, shift)
       IN  IF score > best_score
           THEN OctaveLoop(i + 1, base_shift, low, high, shift, score)
           ELSE OctaveLoop(i + 1, base_shift, low, high, best_shift, best_score)

\* Faulty variant of BaseShift: rounds halves up, floor(x + 1/2).
BaseShiftHalfUp(events) ==
  (2 * (TARGET_CENTER * Len(events) - SumPitches(events)) + Len(events))
    \div (2 * Len(events))

\* round(target_center - sum(pitches) / len(pitches))
BaseShift(events) ==
  PyRound(TARGET_CENTER * Len(events) - SumPitches(events), Len(events))

CalculateTransposition(events) ==
  IF events = <<>> THEN 0
  ELSE LET base_shift == BaseShift(events)
       IN  OctaveLoop(1, base_shift, MinPitch(events), MaxPitch(events),
                      base_shift, INITIAL_BEST_SCORE)

-----------------------------------------------------------------------------
(* Snapping and pitch constraint *)

\* Faulty variant of SnapToGrid: the division by the grid is missing,
\* round(value) * grid.
SnapToGridNoDivision(value, grid) == PyRound(value, 1000) * grid

\* Faulty variant of SnapToGrid: the quotient is truncated, int(value / grid) * grid.
SnapToGridTruncated(value, grid) == (value \div grid) * grid

\* Faulty variant of SnapToGrid: a value halfway between two grid points goes up.
SnapToGridHalfUp(value, grid) == ((2 * value + grid) \div (2 * grid)) * grid

SnapToGrid(value, grid) == PyRound(value, grid) * grid

\* Faulty variant of SnapToStandardDuration: the floor is applied but the
\* duration is not snapped.
SnapDurationFloorOnly(dur, min_dur) == Max(dur, min_dur)

\* Faulty variant of SnapToStandardDuration: the largest allowed duration not
\* above the duration is taken instead of the nearest.
SnapDurationDown(dur, min_dur) ==
  LET d0    == Max(dur, min_dur)
      valid == SelectSeq(FILL_DURATIONS, LAMBDA d : d >= min_dur /\ d <= d0)
  IN  IF valid = <<>> THEN min_dur ELSE Head(valid)

\* Faulty variant of SnapToStandardDuration: of the durations with the least
\* key the last, which is the smallest, is returned.
SnapDurationTieDown(dur, min_dur) ==
  LET d0    == Max(dur, min_dur)
      valid == SelectSeq(FILL_DURATIONS, LAMBDA d : d >= min_dur)
  IN  IF valid = <<>> THEN min_dur
      ELSE valid[CHOOSE i \in 1..Len(valid) :
                   /\ \A j \in 1..Len(valid) : Abs(valid[i] - d0) <= Abs(valid[j] - d0)
                   /\ \A j \in (i + 1)..Len(valid) : Abs(valid[j] - d0) > Abs(valid[i] - d0)]

\* min(valid, key=...) returns the first element with the least key.
SnapToStandardDuration(dur, min_dur) ==
  LET d0    == Max(dur, min_dur)
      valid == SelectSeq(FILL_DURATIONS, LAMBDA d : d >= min_dur)
  IN  IF valid = <<>> THEN min_dur
      ELSE valid[CHOOSE i \in 1..Len(valid) :
                   /\ \A j \in 1..Len(valid) : Abs(valid[i] - d0) <= Abs(valid[j] - d0)
                   /\ \A j \in 1..(i - 1) : Abs(valid[j] - d0) > Abs(valid[i] - d0)]

RECURSIVE OctaveDown(_, _)
OctaveDown(pitch, high) == IF pitch > high THEN OctaveDown(pitch - 12, high) ELSE pitch

RECURSIVE OctaveUp(_, _)
OctaveUp(pitch, low) == IF pitch < low THEN OctaveUp(pitch + 12, low) ELSE pitch

\* Faulty variant of ConstrainPitch: only the upper bound is enforced.
ConstrainPitchHighOnly(pitch, pitch_range) == OctaveDown(pitch, pitch_range.high)

\* Faulty variant of ConstrainPitch: the octave shifts are missing, only the
\* hard clamp is left.
ConstrainPitchClampOnly(pitch, pitch_range) ==
  Max(pitch_range.low, Min(pitch_range.high, pitch))

ConstrainPitch(pitch, pitch_range) ==
  LET p == OctaveUp(OctaveDown(pitch, pitch_range.high), pitch_range.low)
  IN  Max(pitch_range.low, Min(pitch_range.high, p))

-----------------------------------------------------------------------------
(* Grid Quantizer *)

\* Faulty variant of CleanNote: is_rest keeps the dataclass default.
CleanNoteNeverRest(offset, duration, midi_pitch, is_rest) ==
  [offset |-> offset, duration |-> duration, midi_pitch |-> midi_pitch, is_rest |-> FALSE]

CleanNote(offset, duration, midi_pitch, is_rest) ==
  [offset |-> offset, duration |-> duration, midi_pitch |-> midi_pitch, is_rest |-> is_rest]

end_offset(n) == n.offset + n.duration

\* Faulty variant of OffsetGrid: the two lattices are exchanged.
OffsetGridExchanged(grid) == IF grid < 250 THEN 1000 ELSE 500

OffsetGrid(grid) == IF grid >= 250 THEN 1000 ELSE 500

\* Faulty variant of QuantizeOne: the duration is left as extracted.
QuantizeOneRawDuration(e, grid, transp, pitch_range) ==
  [offset |-> SnapToGrid(e.offset, OffsetGrid(grid)), duration |-> e.dur,
   midi_pitch |-> ConstrainPitch(e.pitch + transp, pitch_range), is_rest |-> FALSE]

\* One pass of the for-loop body: snap offset and duration, transpose, constrain.
QuantizeOne(e, grid, transp, pitch_range) ==
  CleanNote(SnapToGrid(e.offset, OffsetGrid(grid)),
            SnapToStandardDuration(e.dur, grid),
            ConstrainPitch(e.pitch + transp, pitch_range),
            FALSE)

\* list.sort(key=offset) is stable: n goes after every element whose offset is <= its own.
RECURSIVE InsertByOffset(_, _)
InsertByOffset(sorted, n) ==
  IF sorted = <<>> THEN <<n>>
  ELSE IF Head(sorted).offset <= n.offset
       THEN <<Head(sorted)>> \o InsertByOffset(Tail(sorted), n)
       ELSE <<n>> \o sorted

RECURSIVE SortByOffset(_)
SortByOffset(s) ==
  IF s = <<>> THEN <<>>
  ELSE InsertByOffset(SortByOffset(SubSeq(s, 1, Len(s) - 1)), s[Len(s)])

\* Keep the first note of every run of notes within 0.01 of the last kept offset.
RECURSIVE UniqueLoop(_, _, _, _)
UniqueLoop(clean, i, unique, last_offset) ==
  IF i > Len(clean) THEN unique
  ELSE IF Abs(clean[i].offset - last_offset) > 10
       THEN UniqueLoop(clean, i + 1, Append(unique, clean[i]), clean[i].offset)
       ELSE UniqueLoop(clean, i + 1, unique, last_offset)

\* Faulty variant of RemoveDuplicates: of the notes at one offset the last is kept.
RemoveDuplicatesKeepLast(clean) ==
  LET kept == SelectSeq([i \in 1..Len(clean) |->
                           [note |-> clean[i],
                            last |-> \A j \in (i + 1)..Len(clean) :
                                       Abs(clean[j].offset - clean[i].offset) > 10]],
                        LAMBDA x : x.last)
  IN  [i \in 1..Len(kept) |-> kept[i].note]

RemoveDuplicates(clean) == UniqueLoop(clean, 1, <<>>, -1000)

\* Faulty variant of RemoveOverlaps: the last note is cut at the end of the bar
\* it starts in.
RemoveOverlapsCutLast(notes, grid) ==
  [i \in 1..Len(notes) |->
     IF i = Len(notes) /\ notes[i].duration > 2000
     THEN [notes[i] EXCEPT !.duration = 2000]
     ELSE notes[i]]

\* Faulty variant of OverlapLoop: a truncated note is kept only when its new
\* duration fits before the next note.
RECURSIVE OverlapLoopDropUnfit(_, _, _, _)
OverlapLoopDropUnfit(notes, i, grid, result) ==
  IF i > Len(notes) THEN result
  ELSE IF i = Len(notes) THEN OverlapLoopDropUnfit(notes, i + 1, grid, Append(result, notes[i]))
  ELSE LET next_offset == notes[i + 1].offset
           new_dur == SnapToStandardDuration(next_offset - notes[i].offset, grid)
       IN  IF end_offset(notes[i]) > next_offset
           THEN IF new_dur <= next_offset - notes[i].offset
                THEN OverlapLoopDropUnfit(notes, i + 1, grid,
                       Append(result, [notes[i] EXCEPT !.duration = new_dur]))
                ELSE OverlapLoopDropUnfit(notes, i + 1, grid, result)
           ELSE OverlapLoopDropUnfit(notes, i + 1, grid, Append(result, notes[i]))

RECURSIVE OverlapLoop(_, _, _, _)
OverlapLoop(notes, i, grid, result) ==
  IF i > Len(notes) THEN result
  ELSE IF i = Len(notes) THEN OverlapLoop(notes, i + 1, grid, Append(result, notes[i]))
  ELSE LET next_offset == notes[i + 1].offset
           new_dur == SnapToStandardDuration(next_offset - notes[i].offset, grid)
       IN  IF end_offset(notes[i]) > next_offset
           THEN IF new_dur >= grid
                THEN OverlapLoop(notes, i + 1, grid,
                       Append(result, CleanNote(notes[i].offset, new_dur,
                                                notes[i].midi_pitch, FALSE)))
                ELSE OverlapLoop(notes, i + 1, grid, result)
           ELSE OverlapLoop(notes, i + 1, grid, Append(result, notes[i]))

RemoveOverlaps(notes, grid) ==
  IF Len(notes) <= 1 THEN notes ELSE OverlapLoop(notes, 1, grid, <<>>)

\* clean list of _quantize_events before de-duplication and overlap removal
QuantizedSorted(events, grid, transp, pitch_range) ==
  SortByOffset([i \in 1..Len(events) |-> QuantizeOne(events[i], grid, transp, pitch_range)])

QuantizeEvents(events, grid, transp, pitch_range) ==
  RemoveOverlaps(RemoveDuplicates(QuantizedSorted(events, grid, transp, pitch_range)), grid)

-----------------------------------------------------------------------------
(* Gap Filler *)

\* Faulty variant of RestDur: every rest is one grid unit long.
RestDurGridOnly(remaining, grid) == grid

\* Faulty variant of RestDur: the dotted durations 3, 1.5 and 0.75 are tried too.
RestDurDotted(remaining, grid) ==
  LET fits == SelectSeq(<<4000, 3000, 2000, 1500, 1000, 750, 500, 250, 125>>,
                        LAMBDA d : d <= remaining + 1 /\ d >= grid)
  IN  IF fits = <<>> THEN grid ELSE Head(fits)

\* The first standard duration (largest first) that fits, else the grid itself.
RestDur(remaining, grid) ==
  LET fits == SelectSeq(FILL_DURATIONS, LAMBDA d : d <= remaining + 1 /\ d >= grid)
  IN  IF fits = <<>> THEN grid ELSE Head(fits)

\* Faulty variant of RestLoop: the loop has no iteration cap.
RECURSIVE RestLoopNoCap(_, _, _, _, _)
RestLoopNoCap(current_offset, remaining, grid, iteration, rests) ==
  IF remaining >= grid - 1
  THEN LET rest_dur == RestDur(remaining, grid)
       IN  RestLoopNoCap(Round3(current_offset + rest_dur), Round3(remaining - rest_dur), grid,
                         iteration + 1,
                         Append(rests, [offset |-> current_offset, duration |-> rest_dur,
                                        midi_pitch |-> 0 - 1, is_rest |-> TRUE]))
  ELSE [rests |-> rests, remaining |-> remaining, iteration |-> iteration]

\* The while-loop of _create_rests_for_duration; yields the loop's final state.
RECURSIVE RestLoop(_, _, _, _, _)
RestLoop(current_offset, remaining, grid, iteration, rests) ==
  IF remaining >= grid - 1 /\ iteration < MAX_ITERATIONS
  THEN LET rest_dur == RestDur(remaining, grid)
       IN  RestLoop(Round3(current_offset + rest_dur), Round3(remaining - rest_dur), grid,
                    iteration + 1,
                    Append(rests, CleanNote(current_offset, rest_dur, None, TRUE)))
  ELSE [rests |-> rests, remaining |-> remaining, iteration |-> iteration]

RestLoopEnd(start_offset, total_duration, grid) ==
  RestLoop(Round3(start_offset), Round3(total_duration), grid, 0, <<>>)

CreateRestsForDuration(start_offset, total_duration, grid) ==
  RestLoopEnd(start_offset, total_duration, grid).rests

\* The loop left because of the iteration cap with at least a grid unit uncovered.
CapReached(start_offset, total_duration, grid) ==
  LET s == RestLoopEnd(start_offset, total_duration, grid)
  IN  s.iteration >= MAX_ITERATIONS /\ s.remaining >= grid - 1

\* _create_rests_for_duration on a grid below the resolution of 0.001: the
\* times are counted in steps of 0.001 / FINE, the tolerance of 0.001 is FINE
\* steps and round(x * 1000) / 1000 rounds to a multiple of FINE.  FINE is odd,
\* so that no time lies halfway between two multiples of 0.001, where the
\* rounding of the double would decide.
FINE == 5

RoundFine(x) == PyRound(x, FINE) * FINE

RestDurFine(remaining, grid) ==
  LET fits == SelectSeq(FILL_DURATIONS,
                        LAMBDA d : d * FINE <= remaining + FINE /\ d * FINE >= grid)
  IN  IF fits = <<>> THEN grid ELSE Head(fits) * FINE

RECURSIVE RestLoopFine(_, _, _, _, _)
RestLoopFine(current_offset, remaining, grid, iteration, rests) ==
  IF remaining >= grid - FINE /\ iteration < MAX_ITERATIONS
  THEN LET rest_dur == RestDurFine(remaining, grid)
       IN  RestLoopFine(RoundFine(current_offset + rest_dur), RoundFine(remaining - rest_dur),
                        grid, iteration + 1,
                        Append(rests, CleanNote(current_offset, rest_dur, None, TRUE)))
  ELSE [rests |-> rests, remaining |-> remaining, iteration |-> iteration]

RestLoopEndFine(start_offset, total_duration, grid) ==
  RestLoopFine(RoundFine(start_offset), RoundFine(total_duration), grid, 0, <<>>)

CreateRestsFine(start_offset, total_duration, grid) ==
  RestLoopEndFine(start_offset, total_duration, grid).rests

\* The for-loop of _fill_gaps_with_rests from note i on; call is the final state
\* of the loop of _create_rests_for_duration(current_time, gap, grid), capped
\* records whether some such call left through its iteration cap, gaps the
\* value of the local gap at each iteration.
RECURSIVE FillLoop(_, _, _, _, _, _, _)
FillLoop(notes, i, grid, result, current_time, capped, gaps) ==
  IF i > Len(notes) THEN [result |-> result, capped |-> capped, gaps |-> gaps]
  ELSE LET note_offset == Round3(notes[i].offset)
           ct0   == Round3(current_time)
           gap   == note_offset - ct0
           fill  == gap >= grid - 1
           call  == RestLoopEnd(ct0, gap, grid)
           rests == IF fill THEN call.rests ELSE <<>>
           ct1   == IF rests # <<>> THEN Round3(end_offset(rests[Len(rests)])) ELSE ct0
           cap1  == capped \/ (fill /\ call.iteration >= MAX_ITERATIONS
                                    /\ call.remaining >= grid - 1)
       IN  IF note_offset >= ct1 - 1
           THEN FillLoop(notes, i + 1, grid,
                         Append(result \o rests,
                                CleanNote(note_offset, notes[i].duration,
                                          notes[i].midi_pitch, FALSE)),
                         Round3(note_offset + notes[i].duration), cap1, Append(gaps, gap))
           ELSE FillLoop(notes, i + 1, grid, result \o rests, ct1, cap1, Append(gaps, gap))

\* Faulty variant of FillGapsWithRests: an empty note list yields a bar of rest.
FillGapsEmptyBar(notes, grid) ==
  IF notes = <<>> THEN <<CleanNote(0, 4000, None, TRUE)>>
  ELSE FillLoop(notes, 1, grid, <<>>, 0, FALSE, <<>>).result

FillGapsWithRests(notes, grid) ==
  IF notes = <<>> THEN <<>> ELSE FillLoop(notes, 1, grid, <<>>, 0, FALSE, <<>>).result

FillGaps(notes, grid) ==
  IF notes = <<>> THEN <<>> ELSE FillLoop(notes, 1, grid, <<>>, 0, FALSE, <<>>).gaps

FillCapped(notes, grid) ==
  IF notes = <<>> THEN FALSE ELSE FillLoop(notes, 1, grid, <<>>, 0, FALSE, <<>>).capped

-----------------------------------------------------------------------------
(* Score Assembler *)

\* The tempos up to 329 at which the double product tempo * 0.70 lies just
\* below the integer that tempo * 7 / 10 is exactly (62.99999999999999 for 90).
FLOAT_SHORT_070 == {90, 170, 180}

\* int(meta.tempo * tempo_mult) on doubles, for 0 <= tempo <= 329: the product
\* is truncated; 0.85 and 1.0 give the floor of the exact product at every
\* tempo in that range, 0.70 falls one short at the tempos above.
NewTempo(tempo, t) ==
  LET exact == (tempo * TEMPO_MULT[t]) \div 100
  IN  IF TEMPO_MULT[t] = 70 /\ tempo \in FLOAT_SHORT_070 THEN exact - 1 ELSE exact

\* An element inserted in the part: a note or rest of the timeline, or a rest
\* made up by _build_score itself (filler) for a gap it met.
Element(offset, duration, midi_pitch, is_rest, filler) ==
  [offset |-> offset, duration |-> duration, midi_pitch |-> midi_pitch,
   is_rest |-> is_rest, filler |-> filler]

\* What iteration i of the for-loop of _build_score inserts. current_offset is 0
\* at the first iteration and afterwards what the iteration before left in it,
\* expected_offset + event.duration of its event.
BuildStep(events, i) ==
  LET expected_offset == Round3(events[i].offset)
      current_offset ==
        IF i = 1 THEN 0
        ELSE Round3(Round3(events[i - 1].offset) + events[i - 1].duration)
      this == Element(expected_offset, events[i].duration, events[i].midi_pitch,
                      events[i].is_rest, FALSE)
  IN  IF expected_offset > current_offset + 10
      THEN <<Element(current_offset, expected_offset - current_offset, None, TRUE, TRUE), this>>
      ELSE <<this>>

\* The iterations lo..hi of the for-loop of _build_score, halved so that the
\* evaluation stays shallow on long timelines.
RECURSIVE BuildLoop(_, _, _)
BuildLoop(events, lo, hi) ==
  IF lo > hi THEN <<>>
  ELSE IF lo = hi THEN BuildStep(events, lo)
  ELSE LET mid == (lo + hi) \div 2
       IN  BuildLoop(events, lo, mid) \o BuildLoop(events, mid + 1, hi)

\* The tempo mark and the elements inserted in the part; the grouping into
\* measures that _build_score does at its end is not modelled.
BuildScore(events, tempo, t) ==
  [tempo |-> NewTempo(tempo, t), part |-> BuildLoop(events, 1, Len(events))]

-----------------------------------------------------------------------------
(* Inputs: event lists as _extract_raw_events returns them (sorted by offset,
   one event per offset, positive durations). *)

MaxEvents == 2

RawOffsets == {0, 500, 1500, 3000, 4000, 250000}

RawDurs == {90, 750, 1000, 3300}

RawPitches == {40, 100}

RawEvent(O, D, P) == [offset : O, dur : D, pitch : P]

EventLists(O, D, P, n) ==
  { s \in UNION { [1..k -> RawEvent(O, D, P)] : k \in 0..n } :
      \A i \in 1..(Len(s) - 1) :
        s[i].offset < s[i + 1].offset /\ ExceedsEpsilon(s[i + 1].offset, s[i].offset) }

NoTier == [t \in TierSet |-> <<>>]

NoScore == [t \in TierSet |-> [tempo |-> 0, part |-> <<>>]]

\* No function call of the single-function specifications is in progress.
NoCall == args = <<>> /\ ret = <<>>

-----------------------------------------------------------------------------
(* process_song: transposition, then the three arrangements in turn *)

Init ==
  /\ raw_events \in EventLists(RawOffsets, RawDurs, RawPitches, MaxEvents)
  /\ transposition = 0
  /\ pc = "transpose"
  /\ clean_notes = NoTier
  /\ timeline = NoTier
  /\ cap_hit = [t \in TierSet |-> FALSE]
  /\ tier_status = [t \in TierSet |-> "pending"]
  /\ meta_tempo = DEFAULT_TEMPO
  /\ tier_score = NoScore
  /\ NoCall

Transpose ==
  /\ pc = "transpose"
  /\ transposition' = CalculateTransposition(raw_events)
  /\ pc' = "beginner"
  /\ UNCHANGED <<raw_events, clean_notes, timeline, cap_hit, tier_status,
                 meta_tempo, tier_score, args, ret>>

NextPc(t) ==
  IF t = "beginner" THEN "intermediate"
  ELSE IF t = "intermediate" THEN "advanced" ELSE "done"

\* _create_clean_arrangement: quantize, fill the gaps, build the score; nothing
\* in it raises on the iteration cap, so the tier always ends "ok".
CreateCleanArrangement(t) ==
  /\ pc = t
  /\ LET notes == QuantizeEvents(raw_events, GRID[t], transposition, RANGES[t])
         complete_sequence == FillGapsWithRests(notes, GRID[t])
     IN  /\ clean_notes' = [clean_notes EXCEPT ![t] = notes]
         /\ timeline' = [timeline EXCEPT ![t] = complete_sequence]
         /\ cap_hit' = [cap_hit EXCEPT ![t] = FillCapped(notes, GRID[t])]
         /\ tier_score' = [tier_score EXCEPT ![t] = BuildScore(complete_sequence, meta_tempo, t)]
  /\ tier_status' = [tier_status EXCEPT ![t] = "ok"]
  /\ pc' = NextPc(t)
  /\ UNCHANGED <<raw_events, transposition, meta_tempo, args, ret>>

Next ==
  \/ Transpose
  \/ \E t \in TierSet : CreateCleanArrangement(t)

Spec == Init /\ [][Next]_vars

-----------------------------------------------------------------------------
(* The transposer alone, on pitch lists over the MIDI range *)

MaxPitches == 3

TransposerPitches == {0, 30, 45, 57, 60, 66, 67, 68, 74, 79, 100, 127}

PitchLists ==
  { [i \in 1..Len(ps) |-> [offset |-> 1000 * (i - 1), dur |-> 1000, pitch |-> ps[i]]] :
      ps \in UNION { [1..k -> TransposerPitches] : k \in 0..MaxPitches } }

InitTranspose ==
  /\ raw_events \in PitchLists
  /\ transposition = 0
  /\ pc = "transpose"
  /\ clean_notes = NoTier
  /\ timeline = NoTier
  /\ cap_hit = [t \in TierSet |-> FALSE]
  /\ tier_status = [t \in TierSet |-> "pending"]
  /\ meta_tempo = DEFAULT_TEMPO
  /\ tier_score = NoScore
  /\ NoCall

SpecTranspose == InitTranspose /\ [][Transpose]_vars

-----------------------------------------------------------------------------
(* The tier pipeline on one event of any MIDI pitch under any transposition *)

MaxShift == 30

MidiPitches == 0..127

InitRange ==
  /\ raw_events \in { <<[offset |-> 0, dur |-> 1000, pitch |-> p]>> : p \in MidiPitches }
  /\ transposition \in (0 - MaxShift)..MaxShift
  /\ pc = "beginner"
  /\ clean_notes = NoTier
  /\ timeline = NoTier
  /\ cap_hit = [t \in TierSet |-> FALSE]
  /\ tier_status = [t \in TierSet |-> "pending"]
  /\ meta_tempo = DEFAULT_TEMPO
  /\ tier_score = NoScore
  /\ NoCall

NextRange == \E t \in TierSet : CreateCleanArrangement(t)

SpecRange == InitRange /\ [][NextRange]_vars

-----------------------------------------------------------------------------
(* The three tiers taken stage by stage in any order, after the transposition *)

TierOffsets == {0, 1500, 3000, 250000}

TierDurs == {750, 3300}

InitTiers ==
  /\ raw_events \in EventLists(TierOffsets, TierDurs, RawPitches, MaxEvents)
  /\ transposition = CalculateTransposition(raw_events)
  /\ pc = "tiers"
  /\ clean_notes = NoTier
  /\ timeline = NoTier
  /\ cap_hit = [t \in TierSet |-> FALSE]
  /\ tier_status = [t \in TierSet |-> "pending"]
  /\ meta_tempo = DEFAULT_TEMPO
  /\ tier_score = NoScore
  /\ NoCall

\* Faulty variant of TierQuantize: the quantized notes go to one list that all
\* tiers share.
TierQuantizeShared(t) ==
  /\ tier_status[t] = "pending"
  /\ clean_notes' = [u \in TierSet |->
                       QuantizeEvents(raw_events, GRID[t], transposition, RANGES[t])]
  /\ tier_status' = [tier_status EXCEPT ![t] = "quantized"]
  /\ UNCHANGED <<raw_events, transposition, pc, timeline, cap_hit,
                 meta_tempo, tier_score, args, ret>>

\* Step 1 of _create_clean_arrangement
TierQuantize(t) ==
  /\ tier_status[t] = "pending"
  /\ clean_notes' = [clean_notes EXCEPT
                       ![t] = QuantizeEvents(raw_events, GRID[t], transposition, RANGES[t])]
  /\ tier_status' = [tier_status EXCEPT ![t] = "quantized"]
  /\ UNCHANGED <<raw_events, transposition, pc, timeline, cap_hit,
                 meta_tempo, tier_score, args, ret>>

\* Steps 2 and 3 of _create_clean_arrangement
TierFill(t) ==
  /\ tier_status[t] = "quantized"
  /\ LET complete_sequence == FillGapsWithRests(clean_notes[t], GRID[t])
     IN  /\ timeline' = [timeline EXCEPT ![t] = complete_sequence]
         /\ tier_score' = [tier_score EXCEPT ![t] = BuildScore(complete_sequence, meta_tempo, t)]
  /\ cap_hit' = [cap_hit EXCEPT ![t] = FillCapped(clean_notes[t], GRID[t])]
  /\ tier_status' = [tier_status EXCEPT ![t] = "ok"]
  /\ UNCHANGED <<raw_events, transposition, pc, clean_notes, meta_tempo, args, ret>>

NextTiers ==
  \/ \E t \in TierSet : TierQuantize(t)
  \/ \E t \in TierSet : TierFill(t)

SpecTiers == InitTiers /\ [][NextTiers]_vars

-----------------------------------------------------------------------------
(* The tier pipeline under every base tempo *)

MaxTempo == 240

InitTempo ==
  /\ raw_events \in EventLists({1500}, {750}, {67}, 1)
  /\ transposition = CalculateTransposition(raw_events)
  /\ pc = "beginner"
  /\ clean_notes = NoTier
  /\ timeline = NoTier
  /\ cap_hit = [t \in TierSet |-> FALSE]
  /\ tier_status = [t \in TierSet |-> "pending"]
  /\ meta_tempo \in 1..MaxTempo
  /\ tier_score = NoScore
  /\ NoCall

NextTempo == \E t \in TierSet : CreateCleanArrangement(t)

SpecTempo == InitTempo /\ [][NextTempo]_vars

-----------------------------------------------------------------------------
(* The quantizer of each tier on events off the lattices *)

QuantOffsets == {0, 400, 500, 700, 1250, 1500, 2600}

QuantDurs == {90, 1000, 3300}

QuantPitches == {62, 67}

InitQuantize ==
  /\ raw_events \in EventLists(QuantOffsets, QuantDurs, QuantPitches, MaxEvents)
  /\ transposition = CalculateTransposition(raw_events)
  /\ pc = "tiers"
  /\ clean_notes = NoTier
  /\ timeline = NoTier
  /\ cap_hit = [t \in TierSet |-> FALSE]
  /\ tier_status = [t \in TierSet |-> "pending"]
  /\ meta_tempo = DEFAULT_TEMPO
  /\ tier_score = NoScore
  /\ NoCall

NextQuantize == \E t \in TierSet : TierQuantize(t)

SpecQuantize == InitQuantize /\ [][NextQuantize]_vars

-----------------------------------------------------------------------------
(* Single functions called on their own: args holds the arguments, ret the
   value returned *)

PipelineIdle ==
  /\ raw_events = <<>>
  /\ transposition = 0
  /\ clean_notes = NoTier
  /\ timeline = NoTier
  /\ cap_hit = [t \in TierSet |-> FALSE]
  /\ tier_status = [t \in TierSet |-> "pending"]
  /\ meta_tempo = DEFAULT_TEMPO
  /\ tier_score = NoScore

Return(value) ==
  /\ pc = "call"
  /\ ret' = value
  /\ pc' = "returned"
  /\ UNCHANGED <<raw_events, transposition, clean_notes, timeline, cap_hit, tier_status,
                 meta_tempo, tier_score, args>>

TierGrids == { GRID[t] : t \in TierSet }

\* _snap_to_standard_duration(dur, min_dur)
MaxDur == 5000

InitSnapDuration ==
  /\ PipelineIdle
  /\ pc = "call"
  /\ args \in [dur : 1..MaxDur, min_dur : TierGrids]
  /\ ret = <<>>

CallSnapToStandardDuration == Return(SnapToStandardDuration(args.dur, args.min_dur))

SpecSnapDuration == InitSnapDuration /\ [][CallSnapToStandardDuration]_vars

\* _constrain_pitch(pitch, pitch_range), on the tiers' ranges and on ranges
\* of every span up to MaxSpan
MaxSpan == 13

ConstrainPitches == (0 - 40)..170

ConstrainRanges ==
  { RANGES[t] : t \in TierSet } \cup { [low |-> 60, high |-> 60 + w] : w \in 0..MaxSpan }

InitConstrain ==
  /\ PipelineIdle
  /\ pc = "call"
  /\ args \in [pitch : ConstrainPitches, pitch_range : ConstrainRanges]
  /\ ret = <<>>

CallConstrainPitch == Return(ConstrainPitch(args.pitch, args.pitch_range))

SpecConstrain == InitConstrain /\ [][CallConstrainPitch]_vars

\* _create_rests_for_duration(start_offset, total_duration, grid)
MaxGapUnits == 72

GapInputs ==
  { 125 * k : k \in 1..MaxGapUnits } \cup {60, 124, 499, 1234, 199500, 200000, 200500}

InitRests ==
  /\ PipelineIdle
  /\ pc = "call"
  /\ args \in [start_offset : {0, 1000, 2500}, total_duration : GapInputs, grid : TierGrids]
  /\ ret = <<>>

CallCreateRests ==
  Return(CreateRestsForDuration(args.start_offset, args.total_duration, args.grid))

SpecRests == InitRests /\ [][CallCreateRests]_vars

\* _create_rests_for_duration(start_offset, total_duration, grid) with the
\* arguments in steps of 0.001 / FINE: grids of 0.0002, 0.0004, 0.0006, 0.0008,
\* 0.001, 0.002 and the three tier grids, gaps from 0 in steps of 0.0002 and
\* gaps of 0.125, 0.5 and 8.1
MaxFineGap == 16

FineGrids == 1..FINE \cup {2 * FINE} \cup { g * FINE : g \in TierGrids }

FineGaps == 0..MaxFineGap \cup {125 * FINE, 500 * FINE, 8100 * FINE}

InitRestsFine ==
  /\ PipelineIdle
  /\ pc = "call"
  /\ args \in [start_offset : {0, 2, 1000 * FINE}, total_duration : FineGaps, grid : FineGrids]
  /\ ret = <<>>

CallCreateRestsFine ==
  Return(CreateRestsFine(args.start_offset, args.total_duration, args.grid))

SpecRestsFine == InitRestsFine /\ [][CallCreateRestsFine]_vars

\* _remove_overlaps(notes, grid), on note lists as the quantizer has them before
\* this step: notes only, sorted, one per offset of the tier's offset lattice,
\* durations allowed for the tier
MaxNotes == 3

OverlapOffsets == {0, 1500, 3000, 4000}

OverlapDurs == {125, 500, 2000, 4000}

OverlapPitches == {60, 72}

NoteLists(g) ==
  LET offs == { o \in OverlapOffsets : o % OffsetGrid(g) = 0 }
      durs == { d \in OverlapDurs : d >= g }
      Increasing(k) == { o \in [1..k -> offs] : \A i \in 1..(k - 1) : o[i] < o[i + 1] }
  IN  UNION { { [i \in 1..k |-> CleanNote(o[i], dp[i][1], dp[i][2], FALSE)] :
                  o \in Increasing(k), dp \in [1..k -> durs \X OverlapPitches] } :
              k \in 0..MaxNotes }

InitOverlaps ==
  /\ PipelineIdle
  /\ pc = "call"
  /\ args \in UNION { [notes : NoteLists(g), grid : {g}] : g \in TierGrids }
  /\ ret = <<>>

CallRemoveOverlaps == Return(RemoveOverlaps(args.notes, args.grid))

SpecOverlaps == InitOverlaps /\ [][CallRemoveOverlaps]_vars

\* _extract_raw_events(score), on the elements of a flattened score in the
\* order of their offsets
MaxElements == 3

ScoreOffsets == {0, 5, 10, 1000, 1010}

ScoreElements ==
  [kind : {"rest"}, offset : ScoreOffsets, dur : {1000}, pitches : {{}}]
  \cup [kind : {"note"}, offset : ScoreOffsets, dur : {0, 500}, pitches : {{60}, {72}}]
  \cup [kind : {"chord"}, offset : ScoreOffsets, dur : {2000}, pitches : {{64, 76, 67}}]

ScoreLists ==
  { s \in UNION { [1..k -> ScoreElements] : k \in 0..MaxElements } :
      \A i \in 1..(Len(s) - 1) : s[i].offset <= s[i + 1].offset }

InitExtract ==
  /\ PipelineIdle
  /\ pc = "call"
  /\ args \in [score : ScoreLists]
  /\ ret = <<>>

CallExtractRawEvents == Return(ExtractRawEvents(args.score))

SpecExtract == InitExtract /\ [][CallExtractRawEvents]_vars

\* _quantize_events on two raw events in raw order, the second delta after the
\* first
MaxOffset == 3000

PairDeltas == {0, 1, 500, 1000}

PairOf(value, delta) ==
  <<[offset |-> value, dur |-> 1000, pitch |-> 60],
    [offset |-> value + delta, dur |-> 1000, pitch |-> 72]>>

InitSort ==
  /\ PipelineIdle
  /\ pc = "call"
  /\ args \in [events : { PairOf(v, d) : v \in 0..MaxOffset, d \in PairDeltas }, tier : TierSet]
  /\ ret = <<>>

CallQuantizePair ==
  Return(QuantizeEvents(args.events, GRID[args.tier], 0, RANGES[args.tier]))

SpecSort == InitSort /\ [][CallQuantizePair]_vars

-----------------------------------------------------------------------------
(* process_song as a call: validation, loading, the pipeline, the output
   files and the exceptions.  args holds the inputs of the call, ret what the
   call has done so far as seen from outside: the exception raised, the
   position at which it was raised, whether process_song has parsed the file,
   and the output files written. *)

\* what the file at midi_file_path is; "unreachable" is a path the system
\* refuses to look up (a name too long, a directory that may not be searched)
FileKinds == {"unreachable", "missing", "bad_extension", "unparseable", "no_notes", "valid"}

\* validate_midi_file: path.exists() is outside its try block and raises
\* OSError on a path that cannot be looked up; otherwise ok is returned.  The
\* validator itself parses the file when it exists and has a MIDI extension.
ValidateMidiFile(file) == [raises |-> file = "unreachable", ok |-> file = "valid"]

MaxLoaded == 2

\* raw events of a parsed file; a file that passes the validation may hold
\* nothing but unpitched notes, which give no raw event
LoadedEvents(file) ==
  IF file = "no_notes" THEN {<<>>}
  ELSE EventLists({0, 1500, 3000}, {1000}, {60}, MaxLoaded)

\* meta.tempo of a parsed file: the number of its first tempo mark, the
\* default without one
LoadedTempos == {0, 97, DEFAULT_TEMPO}

MidiFile(t) == <<"midi", t>>

SheetFile(t) == <<"musicxml", t>>

BackingFile == <<"midi", "backing">>

\* position of the MIDI write of a tier; "done" is the position reached when
\* the last arrangement is built
MidiPc ==
  [ beginner |-> "done", intermediate |-> "midi_intermediate", advanced |-> "midi_advanced" ]

SheetPc ==
  [ beginner |-> "sheet_beginner", intermediate |-> "sheet_intermediate",
    advanced |-> "sheet_advanced" ]

AfterMidi(t) ==
  IF t = "beginner" THEN MidiPc["intermediate"]
  ELSE IF t = "intermediate" THEN MidiPc["advanced"] ELSE SheetPc["beginner"]

AfterSheet(t) ==
  IF t = "beginner" THEN SheetPc["intermediate"]
  ELSE IF t = "intermediate" THEN SheetPc["advanced"] ELSE "backing"

InitProcess ==
  /\ PipelineIdle
  /\ pc = "validate"
  /\ args \in [file : FileKinds, validate : BOOLEAN]
  /\ ret = [raised |-> "none", at |-> "none", loaded |-> FALSE, files |-> {}]

Raise(exception) ==
  /\ ret' = [ret EXCEPT !.raised = exception, !.at = pc]
  /\ pc' = "raised"

\* Faulty variant of Validate: the validation runs inside the try block and
\* its error is caught by the general handler.
ValidateInsideTry ==
  /\ pc = "validate"
  /\ IF args.validate /\ ValidateMidiFile(args.file).raises
       THEN Raise("ProcessingError")
       ELSE IF args.validate /\ ~ValidateMidiFile(args.file).ok
       THEN Raise("ProcessingError")
       ELSE pc' = "load" /\ UNCHANGED ret
  /\ UNCHANGED <<raw_events, transposition, clean_notes, timeline, cap_hit, tier_status,
                 meta_tempo, tier_score, args>>

\* the validation at the head of process_song, before the try block: an
\* exception of validate_midi_file leaves process_song as it is
Validate ==
  /\ pc = "validate"
  /\ IF args.validate /\ ValidateMidiFile(args.file).raises
       THEN Raise("OSError")
       ELSE IF args.validate /\ ~ValidateMidiFile(args.file).ok
       THEN Raise("MidiValidationError")
       ELSE pc' = "load" /\ UNCHANGED ret
  /\ UNCHANGED <<raw_events, transposition, clean_notes, timeline, cap_hit, tier_status,
                 meta_tempo, tier_score, args>>

\* converter.parse, _extract_metadata and _extract_raw_events; a missing or
\* unparseable file makes the parser raise, a file with another extension may
\* or may not parse; a tempo mark of 0 in a file with notes makes
\* _extract_metadata raise in its division, before the events are extracted
Load ==
  /\ pc = "load"
  /\ \E parses \in BOOLEAN, events \in LoadedEvents(args.file), tempo \in LoadedTempos :
       /\ args.file \in {"unreachable", "missing", "unparseable"} => ~parses
       /\ args.file \in {"no_notes", "valid"} => parses
       /\ IF parses /\ ~(tempo = 0 /\ events # <<>>)
            THEN /\ raw_events' = events
                 /\ meta_tempo' = tempo
                 /\ ret' = [ret EXCEPT !.loaded = TRUE]
                 /\ pc' = "transpose"
            ELSE /\ ret' = [ret EXCEPT !.loaded = TRUE, !.raised = "ProcessingError", !.at = pc]
                 /\ pc' = "raised"
                 /\ UNCHANGED <<raw_events, meta_tempo>>
  /\ UNCHANGED <<transposition, clean_notes, timeline, cap_hit, tier_status,
                 tier_score, args>>

\* an exception of the library while a tier is built, caught by the general
\* handler
Raises ==
  /\ pc \in TierSet
  /\ Raise("ProcessingError")
  /\ UNCHANGED <<raw_events, transposition, clean_notes, timeline, cap_hit, tier_status,
                 meta_tempo, tier_score, args>>

\* score.write("midi") of a tier, or its failure, which may leave the file
WriteMidi(t) ==
  /\ pc = MidiPc[t]
  /\ \/ /\ ret' = [ret EXCEPT !.files = @ \cup {MidiFile(t)}]
        /\ pc' = AfterMidi(t)
     \/ \E left \in BOOLEAN :
          /\ ret' = [ret EXCEPT !.raised = "ProcessingError", !.at = pc,
                                !.files = IF left THEN @ \cup {MidiFile(t)} ELSE @]
          /\ pc' = "raised"
  /\ UNCHANGED <<raw_events, transposition, clean_notes, timeline, cap_hit, tier_status,
                 meta_tempo, tier_score, args>>

\* _save_musicxml logs its own failure and raises nothing
SaveMusicXml(t) ==
  /\ pc = SheetPc[t]
  /\ \E saved \in BOOLEAN :
       ret' = [ret EXCEPT !.files = IF saved THEN @ \cup {SheetFile(t)} ELSE @]
  /\ pc' = AfterSheet(t)
  /\ UNCHANGED <<raw_events, transposition, clean_notes, timeline, cap_hit, tier_status,
                 meta_tempo, tier_score, args>>

\* _create_backing_track writes the backing file, in its handler when its
\* first write fails, and process_song returns; when the write of the handler
\* fails too, the exception leaves process_song, and either failed write may
\* leave the file
CreateBackingTrack ==
  /\ pc = "backing"
  /\ \/ /\ ret' = [ret EXCEPT !.files = @ \cup {BackingFile}]
        /\ pc' = "returned"
     \/ \E left \in BOOLEAN :
          /\ ret' = [ret EXCEPT !.raised = "ProcessingError", !.at = pc,
                                !.files = IF left THEN @ \cup {BackingFile} ELSE @]
          /\ pc' = "raised"
  /\ UNCHANGED <<raw_events, transposition, clean_notes, timeline, cap_hit, tier_status,
                 meta_tempo, tier_score, args>>

NextProcess ==
  \/ Validate
  \/ Load
  \/ Transpose
  \/ \E t \in TierSet : CreateCleanArrangement(t)
  \/ Raises
  \/ \E t \in TierSet : WriteMidi(t)
  \/ \E t \in TierSet : SaveMusicXml(t)
  \/ CreateBackingTrack

SpecProcess == InitProcess /\ [][NextProcess]_vars

-----------------------------------------------------------------------------
(* Properties *)

Arranged(t) == tier_status[t] = "ok"

Contiguous(events) ==
  /\ events # <<>> => events[1].offset = 0
  /\ \A i \in 1..(Len(events) - 1) : end_offset(events[i]) = events[i + 1].offset

NoOverlap(events) ==
  \A i \in 1..(Len(events) - 1) : end_offset(events[i]) <= events[i + 1].offset

HasRest(events) == \E i \in 1..Len(events) : events[i].is_rest

HasNote(events) == \E i \in 1..Len(events) : ~events[i].is_rest

\* The tier's whole pipeline as a function of the raw events
ArrangeAlone(events, transp, t) ==
  FillGapsWithRests(QuantizeEvents(events, GRID[t], transp, RANGES[t]), GRID[t])

\* The note events of a timeline, read back as raw events
NotesAsRaw(events) ==
  LET notes == SelectSeq(events, LAMBDA e : ~e.is_rest)
  IN  [i \in 1..Len(notes) |->
         [offset |-> notes[i].offset, dur |-> notes[i].duration, pitch |-> notes[i].midi_pitch]]

\* C1: every arranged tier's timeline starts at offset 0 and each event ends
\* exactly where the next one starts, whatever the silences between notes.
FullCoverage == \A t \in TierSet : Arranged(t) => Contiguous(timeline[t])

\* C2: every event of every tier's timeline has a duration of the standard set.
StandardDurationsOnly ==
  \A t \in TierSet : \A i \in 1..Len(timeline[t]) :
    timeline[t][i].duration \in STANDARD_DURATIONS

StandardDurationsWitness ==
  \E t \in TierSet : Arranged(t) /\ HasRest(timeline[t]) /\ HasNote(timeline[t])
                     /\ \E i \in 1..Len(raw_events) : raw_events[i].dur \notin STANDARD_DURATIONS

\* C3: every note of every tier's timeline has its pitch inside the tier's range.
RangeContainment ==
  \A t \in TierSet : \A i \in 1..Len(timeline[t]) :
    ~timeline[t][i].is_rest =>
      /\ RANGES[t].low <= timeline[t][i].midi_pitch
      /\ timeline[t][i].midi_pitch <= RANGES[t].high

RangeContainmentWitness ==
  /\ \A t \in TierSet : Arranged(t) /\ HasNote(timeline[t])
  /\ raw_events[1].pitch + transposition > RANGES["advanced"].high

\* C4: the quantizer's output, which _remove_overlaps produced, has no event
\* whose end exceeds the offset of the event after it.
OverlapsResolved == \A t \in TierSet : Arranged(t) => NoOverlap(clean_notes[t])

\* C5: a tier whose rest tiling left through the iteration cap with at least a
\* grid unit uncovered is aborted.
CapIsFatal == \A t \in TierSet : Arranged(t) /\ cap_hit[t] => tier_status[t] = "aborted"

\* C6: re-running the quantizer, overlap resolver and gap filler on the notes of
\* an arranged tier's timeline, with the same grid and range and transposition 0,
\* gives the same timeline again.
QuantizationIdempotent ==
  \A t \in TierSet :
    Arranged(t) => ArrangeAlone(NotesAsRaw(timeline[t]), 0, t) = timeline[t]

\* a tier whose timeline holds rests and two notes and differs from the raw input
IdempotenceWitness ==
  \E t \in TierSet :
    /\ Arranged(t) /\ HasRest(timeline[t])
    /\ Len(NotesAsRaw(timeline[t])) = 2
    /\ \E i \in 1..2 : NotesAsRaw(timeline[t])[i].dur # raw_events[i].dur
    /\ \E i \in 1..2 : NotesAsRaw(timeline[t])[i].offset # raw_events[i].offset

InReferenceRange(events) ==
  \A i \in 1..Len(events) : REF_LOW <= events[i].pitch /\ events[i].pitch <= REF_HIGH

\* |mean pitch - 67| <= 1/2
Centered(events) ==
  2 * Abs(TARGET_CENTER * Len(events) - SumPitches(events)) <= Len(events)

\* C7: a non-empty event list with all pitches in 57..79 and mean pitch within
\* half a semitone of 67 gets transposition 0.
TranspositionStable ==
  (pc # "transpose" /\ raw_events # <<>> /\ InReferenceRange(raw_events) /\ Centered(raw_events))
    => transposition = 0

\* an in-range list whose mean is exactly half a semitone off the centre
TranspositionStableWitness ==
  /\ pc # "transpose" /\ Len(raw_events) >= 2 /\ InReferenceRange(raw_events)
  /\ 2 * Abs(TARGET_CENTER * Len(raw_events) - SumPitches(raw_events)) = Len(raw_events)

Candidates(events) == { BaseShift(events) + OCTAVES[i] : i \in 1..Len(OCTAVES) }

CandidateScore(events, shift) == ShiftScore(MinPitch(events), MaxPitch(events), shift)

\* C8: for a non-empty event list the transposition is one of the five
\* candidates, no candidate scores higher, and no candidate with the same score
\* is lower.
TransposerSelection ==
  (pc # "transpose" /\ raw_events # <<>>) =>
    /\ transposition \in Candidates(raw_events)
    /\ \A c \in Candidates(raw_events) :
         /\ CandidateScore(raw_events, c) <= CandidateScore(raw_events, transposition)
         /\ CandidateScore(raw_events, c) = CandidateScore(raw_events, transposition)
              => transposition <= c

\* a list for which two candidates share the best score
TransposerSelectionWitness ==
  /\ pc # "transpose" /\ raw_events # <<>>
  /\ \E c \in Candidates(raw_events) :
       /\ c # transposition
       /\ CandidateScore(raw_events, c) = CandidateScore(raw_events, transposition)

\* C9: with no raw events the transposition is 0 and every tier ends "ok" with
\* an empty note list and an empty timeline.
EmptyInputGraceful ==
  raw_events = <<>> =>
    /\ pc # "transpose" => transposition = 0
    /\ \A t \in TierSet :
         tier_status[t] # "pending" =>
           tier_status[t] = "ok" /\ clean_notes[t] = <<>> /\ timeline[t] = <<>>

EmptyInputWitness == raw_events = <<>> /\ pc = "done" /\ \A t \in TierSet : Arranged(t)

\* C10: no tier step changes the raw events or the transposition, and whatever
\* the order and interleaving of the tiers' steps, a tier that is done holds the
\* timeline that the tier's pipeline gives on its own.
TierIndependence ==
  /\ [][raw_events' = raw_events /\ transposition' = transposition]_vars
  /\ [](\A t \in TierSet :
          Arranged(t) => timeline[t] = ArrangeAlone(raw_events, transposition, t))

\* all tiers done, with rests in each timeline and timelines that differ by tier
TierIndependenceWitness ==
  /\ \A t \in TierSet : Arranged(t) /\ HasRest(timeline[t])
  /\ timeline["beginner"] # timeline["advanced"]

\* C11: the tempo written for an arranged tier is the base tempo times the
\* tier's multiplier, rounded to the nearest integer (at most one half away).
TierTempoRounded ==
  \A t \in TierSet :
    Arranged(t) =>
      2 * Abs(100 * tier_score[t].tempo - meta_tempo * TEMPO_MULT[t]) <= 100

Quantized(t) == tier_status[t] # "pending"

Offsets(notes) == { notes[i].offset : i \in 1..Len(notes) }

SnappedOffsets(events, lattice) ==
  { SnapToGrid(events[i].offset, lattice) : i \in 1..Len(events) }

\* C12 as stated: the note offsets of a quantized tier are the raw offsets
\* snapped to the quarter lattice when the tier's grid is finer than a sixteenth
\* and to the eighth lattice otherwise.
OffsetGridAsClaimed ==
  \A t \in TierSet :
    Quantized(t) =>
      Offsets(clean_notes[t])
        = SnappedOffsets(raw_events, IF GRID[t] < 250 THEN 1000 ELSE 500)

\* What line 466 does instead: the note offsets of a quantized tier are the raw
\* offsets snapped to the quarter lattice when the tier's grid is a sixteenth
\* or coarser (beginner, intermediate) and to the eighth lattice when it is
\* finer (advanced).
OffsetGridSelection ==
  \A t \in TierSet :
    Quantized(t) =>
      Offsets(clean_notes[t])
        = SnappedOffsets(raw_events, IF t = "advanced" THEN 500 ELSE 1000)

\* all tiers quantized from a raw offset that the two lattices snap differently
OffsetGridWitness ==
  /\ \A t \in TierSet : Quantized(t)
  /\ \E i \in 1..Len(raw_events) :
       SnapToGrid(raw_events[i].offset, 500) # SnapToGrid(raw_events[i].offset, 1000)
  /\ Offsets(clean_notes["advanced"]) # Offsets(clean_notes["intermediate"])

\* C13: each tier's offset grid is at least its note grid, and every offset of
\* a quantized note is a multiple of the offset grid at most half a step away
\* from the raw offset of an event.
OffsetSnapping ==
  \A t \in TierSet :
    LET og == OffsetGrid(GRID[t])
    IN  /\ og >= GRID[t]
        /\ Quantized(t) =>
             \A i \in 1..Len(clean_notes[t]) :
               /\ clean_notes[t][i].offset % og = 0
               /\ \E k \in 1..Len(raw_events) :
                    2 * Abs(raw_events[k].offset - clean_notes[t][i].offset) <= og

\* a quantized note whose raw offset was off the lattice and moved up
OffsetSnappingWitness ==
  \E t \in TierSet :
    /\ Quantized(t) /\ Len(raw_events) = 1 /\ Len(clean_notes[t]) = 1
    /\ raw_events[1].offset % OffsetGrid(GRID[t]) # 0
    /\ clean_notes[t][1].offset > raw_events[1].offset

\* index of the first raw event that snaps to the given offset
FirstAt(events, lattice, offset) ==
  CHOOSE k \in 1..Len(events) :
    /\ SnapToGrid(events[k].offset, lattice) = offset
    /\ \A j \in 1..(k - 1) : SnapToGrid(events[j].offset, lattice) # offset

\* C16: the quantizer's list is in strictly increasing offset order, holds no
\* rest, and each note carries the pitch of the first raw event that snaps to
\* its offset.
QuantizerDedup ==
  \A t \in TierSet :
    Quantized(t) =>
      LET notes == clean_notes[t]
      IN  /\ \A i \in 1..(Len(notes) - 1) : notes[i].offset < notes[i + 1].offset
          /\ \A i \in 1..Len(notes) :
               /\ ~notes[i].is_rest
               /\ notes[i].offset \in SnappedOffsets(raw_events, OffsetGrid(GRID[t]))
               /\ notes[i].midi_pitch
                    = ConstrainPitch(
                        raw_events[FirstAt(raw_events, OffsetGrid(GRID[t]),
                                           notes[i].offset)].pitch + transposition,
                        RANGES[t])

\* two raw events of different pitch snapped to one offset, one note kept
QuantizerDedupWitness ==
  \E t \in TierSet :
    /\ Quantized(t) /\ Len(raw_events) = 2 /\ Len(clean_notes[t]) = 1
    /\ raw_events[1].pitch # raw_events[2].pitch
    /\ clean_notes[t][1].midi_pitch
         # ConstrainPitch(raw_events[2].pitch + transposition, RANGES[t])

Allowed(g) == { d \in { FILL_DURATIONS[i] : i \in 1..Len(FILL_DURATIONS) } : d >= g }

\* C14: _snap_to_standard_duration(d, g) returns an allowed duration that is at
\* least g and as near to max(d, g) as any allowed duration that is at least g.
DurationSnapping ==
  pc = "returned" =>
    LET target == Max(args.dur, args.min_dur)
    IN  /\ ret \in Allowed(args.min_dur)
        /\ \A s \in Allowed(args.min_dur) : Abs(ret - target) <= Abs(s - target)

\* a duration below the grid unit, and one strictly between two allowed ones
DurationSnappingWitness ==
  /\ pc = "returned"
  /\ \/ args.dur < args.min_dur /\ ret = args.min_dur
     \/ args.dur > 1000 /\ args.dur < 2000 /\ ret = 2000

\* C15: on the three tiers' ranges _constrain_pitch returns its input moved by
\* whole octaves, and on any range a result that is not the input moved by
\* whole octaves occurs only when the range spans less than an octave.
OctaveOnlyCorrection ==
  pc = "returned" =>
    /\ args.pitch_range \in { RANGES[t] : t \in TierSet } => (ret - args.pitch) % 12 = 0
    /\ (ret - args.pitch) % 12 # 0 => args.pitch_range.high - args.pitch_range.low < 12

\* a pitch several octaves off a tier's range, and a clamped pitch on a narrow range
OctaveOnlyWitness ==
  /\ pc = "returned"
  /\ \/ args.pitch_range = RANGES["beginner"] /\ Abs(ret - args.pitch) >= 24
     \/ (ret - args.pitch) % 12 # 0

RECURSIVE SumDurations(_)
SumDurations(events) ==
  IF events = <<>> THEN 0 ELSE Head(events).duration + SumDurations(Tail(events))

\* Some choice of at most c durations among FILL_DURATIONS[i], FILL_DURATIONS[i+1], ...
\* that are at least g sums to a.
RECURSIVE CanTile(_, _, _, _)
CanTile(a, c, i, g) ==
  IF a = 0 THEN TRUE
  ELSE IF c = 0 \/ i > Len(FILL_DURATIONS) THEN FALSE
  ELSE IF FILL_DURATIONS[i] < g \/ a > c * FILL_DURATIONS[i] THEN FALSE
  ELSE \/ FILL_DURATIONS[i] <= a /\ CanTile(a - FILL_DURATIONS[i], c - 1, i, g)
       \/ CanTile(a, c, i + 1, g)

\* C20: for a gap that is a positive multiple of the grid and does not run into
\* the iteration cap, the rests start at the gap's start, follow each other
\* without hole, never grow, sum to the gap, and no tiling of the gap with
\* allowed durations has fewer rests; a gap of one grid unit gives one rest.
GreedyRestTiling ==
  (/\ pc = "returned"
   /\ args.total_duration > 0
   /\ args.total_duration % args.grid = 0
   /\ ~CapReached(args.start_offset, args.total_duration, args.grid))
  => /\ ret # <<>>
     /\ ret[1].offset = args.start_offset
     /\ \A i \in 1..Len(ret) : ret[i].is_rest /\ ret[i].duration \in Allowed(args.grid)
     /\ \A i \in 1..(Len(ret) - 1) :
          /\ end_offset(ret[i]) = ret[i + 1].offset
          /\ ret[i].duration >= ret[i + 1].duration
     /\ SumDurations(ret) = args.total_duration
     /\ ~CanTile(args.total_duration, Len(ret) - 1, 1, args.grid)
     /\ args.total_duration = args.grid => Len(ret) = 1

\* a gap tiled with rests of three different durations
GreedyRestTilingWitness ==
  /\ pc = "returned"
  /\ args.total_duration % args.grid = 0
  /\ Len(ret) >= 4
  /\ Cardinality({ ret[i].duration : i \in 1..Len(ret) }) >= 3
  /\ SumDurations(ret) = args.total_duration

PitchIffRest(events) ==
  \A i \in 1..Len(events) : (events[i].midi_pitch = None) <=> events[i].is_rest

\* C17: in the note list the quantizer and overlap resolver produce and in the
\* timeline the gap filler produces, an event has no pitch exactly when it is
\* a rest.
RestHasNoPitch ==
  \A t \in TierSet : PitchIffRest(clean_notes[t]) /\ PitchIffRest(timeline[t])

\* a timeline with a rest before its first note and a rest between two notes
RestHasNoPitchWitness ==
  \E t \in TierSet :
    /\ Arranged(t) /\ Len(clean_notes[t]) = 2 /\ Len(timeline[t]) >= 4
    /\ timeline[t][1].is_rest /\ timeline[t][Len(timeline[t]) - 1].is_rest

\* C18: the events of an arranged tier's timeline that are not rests are
\* exactly the notes handed to the gap filler, in their order.
NotesKept ==
  \A t \in TierSet :
    Arranged(t) => SelectSeq(timeline[t], LAMBDA e : ~e.is_rest) = clean_notes[t]

\* C19: at every iteration of the gap filler the distance from the running
\* time to the note's offset is a whole number of grid units of the tier.
GapOnGrid ==
  \A t \in TierSet :
    Arranged(t) =>
      LET gaps == FillGaps(clean_notes[t], GRID[t])
      IN  \A i \in 1..Len(gaps) : gaps[i] % GRID[t] = 0

\* two iterations, a gap before the first note and a gap of another sign or
\* size before the second
GapOnGridWitness ==
  \E t \in TierSet :
    /\ Arranged(t)
    /\ LET gaps == FillGaps(clean_notes[t], GRID[t])
       IN  Len(gaps) = 2 /\ gaps[1] > 0 /\ gaps[2] # gaps[1] /\ gaps[2] # 0

\* C21: for every gap that is a whole number of grid units the rest-tiling loop
\* ends with nothing left to cover, at the iteration cap or before it.
CapOnlyOffGrid ==
  (pc = "returned" /\ args.total_duration % args.grid = 0)
  => RestLoopEnd(args.start_offset, args.total_duration, args.grid).remaining = 0

\* C22: every call of _create_rests_for_duration, on whatever grid above 0,
\* returns; it has gone through at most 50 iterations and emitted one rest in
\* each, the rests together are no longer than the gap plus the tolerance of
\* 0.001, and when the loop was left before the cap less than one grid unit is
\* uncovered.
RestTilingAnyGrid ==
  pc = "returned" =>
    LET s == RestLoopEndFine(args.start_offset, args.total_duration, args.grid)
    IN  /\ Len(ret) = s.iteration
        /\ Len(ret) <= MAX_ITERATIONS
        /\ SumDurations(ret) <= args.total_duration + FINE
        /\ s.iteration < MAX_ITERATIONS => s.remaining < args.grid

\* The same on the three tier grids and times that are multiples of 0.001.
RestTilingBounded ==
  pc = "returned" =>
    LET s == RestLoopEnd(args.start_offset, args.total_duration, args.grid)
    IN  /\ Len(ret) = s.iteration
        /\ Len(ret) <= 50
        /\ SumDurations(ret) <= args.total_duration + 1
        /\ s.iteration < 50 => s.remaining < args.grid

\* a call left through the cap with part of the gap uncovered
RestTilingBoundedWitness ==
  /\ pc = "returned"
  /\ Len(ret) = 50
  /\ SumDurations(ret) + args.grid <= args.total_duration

\* C23: _remove_overlaps returns the last note of its input as it is, returns
\* every note with the offset and the pitch it had, and returns as it is every
\* note that ends no later than the next one starts.
OverlapFrame ==
  pc = "returned" =>
    LET notes == args.notes
        n     == Len(notes)
    IN  /\ n > 0 => ret # <<>> /\ ret[Len(ret)] = notes[n]
        /\ \A i \in 1..Min(n, Len(ret)) :
             /\ ret[i].offset = notes[i].offset
             /\ ret[i].midi_pitch = notes[i].midi_pitch
             /\ (i < n /\ end_offset(notes[i]) <= notes[i + 1].offset) => ret[i] = notes[i]

\* three notes: the first is truncated, the second ends in time, the third is
\* the last and reaches beyond everything
OverlapFrameWitness ==
  /\ pc = "returned"
  /\ Len(args.notes) = 3 /\ Len(ret) = 3
  /\ ret[1].duration < args.notes[1].duration
  /\ end_offset(args.notes[2]) <= args.notes[3].offset
  /\ args.notes[3].duration = 4000

\* C27: _remove_overlaps returns as many notes as it was given; the duration a
\* truncated note is re-snapped to is at least the grid unit.
OverlapKeepsAll ==
  pc = "returned" =>
    /\ Len(ret) = Len(args.notes)
    /\ \A i \in 1..Len(ret) : ret[i].duration >= args.grid

\* two overlapping notes in a row, the first re-snapped to more than its span
OverlapKeepsAllWitness ==
  /\ pc = "returned"
  /\ Len(args.notes) = 3
  /\ \A i \in 1..2 : end_offset(args.notes[i]) > args.notes[i + 1].offset
  /\ Len(ret) = 3
  /\ ret[1].duration > args.notes[2].offset - args.notes[1].offset

\* C24: every event of every tier's timeline, note or rest, has one of the
\* durations 4, 2, 1, 0.5, 0.25, 0.125 and at least the tier's grid unit
\* (0.5 beginner, 0.25 intermediate, 0.125 advanced); no dotted duration occurs.
GridUnitIsMinimum ==
  /\ GRID = [beginner |-> 500, intermediate |-> 250, advanced |-> 125]
  /\ \A t \in TierSet : \A i \in 1..Len(timeline[t]) :
       /\ timeline[t][i].duration \in {4000, 2000, 1000, 500, 250, 125}
       /\ timeline[t][i].duration >= GRID[t]

\* a silence of three quarters, tiled with a half rest and a quarter rest, and a
\* raw duration below the grid unit
GridUnitIsMinimumWitness ==
  \E t \in TierSet :
    /\ Arranged(t)
    /\ \E i \in 1..Len(raw_events) : raw_events[i].dur < GRID[t]
    /\ \E i \in 1..(Len(timeline[t]) - 2) :
         /\ ~timeline[t][i].is_rest
         /\ timeline[t][i + 1].is_rest /\ timeline[t][i + 1].duration = 2000
         /\ timeline[t][i + 2].is_rest /\ timeline[t][i + 2].duration = 1000

\* C25: the part _build_score assembles for an arranged tier holds exactly the
\* events of the tier's timeline, each at its offset with its duration and
\* none made up by the gap-filling branch of _build_score, in increasing
\* offset order.
ScoreIsTimeline ==
  \A t \in TierSet :
    Arranged(t) =>
      LET part == tier_score[t].part
      IN  /\ Len(part) = Len(timeline[t])
          /\ \A i \in 1..Len(part) :
               /\ ~part[i].filler
               /\ part[i].offset = timeline[t][i].offset
               /\ part[i].duration = timeline[t][i].duration
               /\ part[i].is_rest = timeline[t][i].is_rest
          /\ \A i \in 1..(Len(part) - 1) : part[i].offset < part[i + 1].offset

\* C26: the events _extract_raw_events returns are in increasing order of
\* offset with no two offsets closer than 0.01, have positive durations, and
\* each is a note or chord of the score at that very offset, never a rest,
\* with that element's duration, 0.25 standing for a duration that is not
\* positive; every note or chord of the score has a returned event at its
\* offset or at most 0.01 before it; and the pitch of a returned event is the
\* highest pitch sounding at the same offset, offsets closer than 0.01
\* counting as the same and all pitches of a chord counted.
EventExtraction ==
  pc = "returned" =>
    LET score == args.score
        Sounding(o) == { j \in 1..Len(score) : score[j].kind # "rest" /\ score[j].offset = o }
        SoundingNear(o) ==
          { j \in 1..Len(score) : score[j].kind # "rest" /\ Abs(score[j].offset - o) < 10 }
    IN  /\ \A i \in 1..(Len(ret) - 1) : ret[i + 1].offset - ret[i].offset >= 10
        /\ \A j \in 1..Len(score) :
             score[j].kind # "rest" =>
               \E i \in 1..Len(ret) :
                 ret[i].offset <= score[j].offset /\ score[j].offset - ret[i].offset <= 10
        /\ \A i \in 1..Len(ret) :
             /\ ret[i].dur > 0
             /\ \A j \in SoundingNear(ret[i].offset) :
                  \A p \in score[j].pitches : p <= ret[i].pitch
             /\ \E j \in Sounding(ret[i].offset) :
                  /\ ret[i].pitch \in score[j].pitches
                  /\ ret[i].dur = IF score[j].dur <= 0 THEN 250 ELSE score[j].dur

\* The same with the highest pitch taken among the notes and chords at exactly
\* the offset of the returned event, which is what the sort by (offset, -pitch)
\* and the keep-first loop give.
EventExtractionAtEqualOffsets ==
  pc = "returned" =>
    LET score == args.score
        Sounding(o) == { j \in 1..Len(score) : score[j].kind # "rest" /\ score[j].offset = o }
    IN  /\ \A i \in 1..(Len(ret) - 1) : ret[i + 1].offset - ret[i].offset >= 10
        /\ \A j \in 1..Len(score) :
             score[j].kind # "rest" =>
               \E i \in 1..Len(ret) :
                 ret[i].offset <= score[j].offset /\ score[j].offset - ret[i].offset <= 10
        /\ \A i \in 1..Len(ret) :
             /\ ret[i].dur > 0
             /\ \A j \in Sounding(ret[i].offset) : \A p \in score[j].pitches : p <= ret[i].pitch
             /\ \E j \in Sounding(ret[i].offset) :
                  /\ ret[i].pitch \in score[j].pitches
                  /\ ret[i].dur = IF score[j].dur <= 0 THEN 250 ELSE score[j].dur

\* a rest and a chord at offset 0 and, 0.005 later, a note of no duration that
\* is dropped as a duplicate of the chord
EventExtractionWitness ==
  /\ pc = "returned"
  /\ Len(ret) = 1 /\ ret[1].pitch = 76
  /\ \E i, j, k \in 1..Len(args.score) :
       /\ args.score[i].kind = "chord" /\ args.score[i].offset = 0
       /\ args.score[j].kind = "note" /\ args.score[j].offset = 5 /\ args.score[j].dur = 0
       /\ args.score[k].kind = "rest" /\ args.score[k].offset = 0

\* The larger of the two neighbouring allowed durations that x lies exactly
\* halfway between, 0 when x is no such midpoint.
TieUpper(x, g) ==
  LET ties == { a \in Allowed(g) : \E b \in Allowed(g) : a = 2 * b /\ 2 * x = a + b }
  IN  IF ties = {} THEN 0 ELSE CHOOSE a \in ties : TRUE

\* C28: a note whose raw duration, raised to the grid unit, lies exactly halfway
\* between two allowed durations and that does not reach into the next note has
\* the larger of the two; a note cut by the overlap resolver whose span to the
\* next note lies exactly halfway between two allowed durations has the larger
\* of these two.
DurationTieBreak ==
  \A t \in TierSet :
    Arranged(t) =>
      LET g     == GRID[t]
          notes == clean_notes[t]
      IN  \A i \in 1..Len(notes) :
            LET raw  == raw_events[FirstAt(raw_events, OffsetGrid(g), notes[i].offset)]
                d    == Max(raw.dur, g)
                last == i = Len(notes)
                span == IF last THEN 0 ELSE notes[i + 1].offset - notes[i].offset
            IN  /\ (TieUpper(d, g) # 0 /\ (last \/ TieUpper(d, g) <= span))
                     => notes[i].duration = TieUpper(d, g)
                /\ (~last /\ TieUpper(span, g) # 0 /\ d > span)
                     => notes[i].duration = TieUpper(span, g)

\* one tier with a raw duration of 0.75 snapped to 1 and a note cut at a span
\* of 3 and re-snapped to 4
DurationTieBreakWitness ==
  \E t \in TierSet :
    /\ Arranged(t) /\ Len(clean_notes[t]) = 2 /\ Len(raw_events) = 2
    /\ raw_events[1].dur = 3300 /\ raw_events[2].dur = 750
    /\ clean_notes[t][2].offset - clean_notes[t][1].offset = 3000
    /\ clean_notes[t][1].duration = 4000
    /\ clean_notes[t][2].duration = 1000

\* C29: an offset exactly halfway between two points of the offset lattice is
\* snapped to the one that is an even multiple of the lattice step (0.5 to 0,
\* 1.5 to 2, 2.5 to 2 on the quarter lattice); of two raw events in raw order
\* the first is never snapped behind the second, so the first returned note is
\* the first raw event at its snapped offset and a second returned note is
\* the second raw event.
OffsetTieBreakMonotone ==
  pc = "returned" =>
    LET lattice == OffsetGrid(GRID[args.tier])
        a == args.events[1].offset
    IN  /\ Len(ret) \in 1..2
        /\ ret[1].midi_pitch = args.events[1].pitch
        /\ Len(ret) = 2 => /\ ret[2].midi_pitch = args.events[2].pitch
                           /\ ret[1].offset < ret[2].offset
        /\ 2 * Abs(ret[1].offset - a) <= lattice
        /\ 2 * (a % lattice) = lattice
             => ret[1].offset % (2 * lattice) = 0 /\ 2 * Abs(ret[1].offset - a) = lattice
        /\ (lattice = 1000 /\ a = 500) => ret[1].offset = 0
        /\ (lattice = 1000 /\ a = 1500) => ret[1].offset = 2000
        /\ (lattice = 1000 /\ a = 2500) => ret[1].offset = 2000

\* two offsets halfway between lattice points, the first snapped down and the
\* second snapped up
OffsetTieBreakWitness ==
  /\ pc = "returned"
  /\ args.events[1].offset = 500 /\ args.events[2].offset = 1500
  /\ Len(ret) = 2
  /\ ret[1].offset = 0 /\ ret[2].offset = 2000

\* C30: no output file is written before all three tiers are built; an
\* exception raised while a tier is built leaves process_song with
\* ProcessingError and no MIDI or MusicXML file written; a validation that
\* returns not ok leaves it with MidiValidationError, raised at the validation;
\* whatever is raised at the validation is not ProcessingError, and the file
\* is then not loaded by process_song, no raw event extracted and no file
\* written.
AllOrNothing ==
  /\ DOMAIN ret = {"raised", "at", "loaded", "files"}
  /\ ret.files # {} => \A t \in TierSet : tier_status[t] = "ok"
  /\ ret.at \in TierSet => /\ pc = "raised"
                           /\ ret.raised = "ProcessingError"
                           /\ ret.files = {}
                           /\ tier_status[ret.at] = "pending"
  /\ (pc # "validate" /\ args.validate /\ ~ValidateMidiFile(args.file).raises
                      /\ ~ValidateMidiFile(args.file).ok)
       => /\ pc = "raised"
          /\ ret.raised = "MidiValidationError"
          /\ ret.at = "validate"
  /\ ret.at = "validate"
       => /\ pc = "raised"
          /\ ret.raised # "ProcessingError"
          /\ ~ret.loaded
          /\ raw_events = <<>>
          /\ ret.files = {}
  /\ ret.raised = "MidiValidationError"
       => args.validate /\ ~ValidateMidiFile(args.file).ok /\ ret.at = "validate"

\* the building of the second tier raised after the first tier was built
AllOrNothingWitness ==
  /\ pc = "raised"
  /\ ret.at = "intermediate"
  /\ ret.raised = "ProcessingError"
  /\ tier_status["beginner"] = "ok"
  /\ Len(timeline["beginner"]) > 0
  /\ ret.files = {}

====
